---- MODULE Spec2Model ----
(***************************************************************************)
(* Model of the XLIFF conversion scripts of session-shared-scripts:         *)
(*   crowdin/generate_android_strings.py  (mobile resource-XML encoder)     *)
(*   crowdin/generate_desktop_strings.py  (desktop ICU-JSON encoder)        *)
(*   crowdin/generate_ios_strings.py      (string-catalog encoder)          *)
(*                                                                         *)
(* A text is a sequence of tokens.  The braces, the HTML entities and the   *)
(* quote characters are tokens of their own, so that the regular            *)
(* expression of convert_placeholders, str.replace and html.unescape are    *)
(* computed on the text the way the Python code computes them.              *)
(* A Python dict is a sequence of [key, value] records in insertion order.  *)
(***************************************************************************)
EXTENDS Integers, Sequences, FiniteSets, TLC

VARIABLES
    text,       \* SpecText: the input text of the text-level functions
    op,         \* SpecText: the function applied last ("none" before any)
    result,     \* SpecText: what that function returned
    script,     \* SpecDoc/Spec: which of the three scripts runs
    doc,        \* SpecDoc: the XLIFF document handed to parse_xliff
    pc,         \* SpecDoc: "start", "parsed", "encoded" or "failed"
    parsed,     \* SpecDoc: what parse_xliff returned (or the error it raised)
    output,     \* SpecDoc: what the encoder produced from the parsed map
    queue,      \* Spec: target_languages, then the locales still to convert
    catalog,    \* Spec: string_catalog["strings"] of the string-catalog run
    status,     \* Spec: "start", "constants", "running", "done" or "failed"
    error,      \* Spec: the exception that ended the run, NoError without one
    files,      \* Spec: the files written so far, a dict from path to content
    glossary,   \* Spec: the content of _non_translatable_strings.json
    appName,    \* Spec: what the constants step of the mobile script returned
    log         \* Spec: the locales converted so far, with what each one wrote

vars == <<text, op, result, script, doc, pc, parsed, output, queue, catalog, status,
          error, files, glossary, appName, log>>

(***************************************************************************)
(* Bounds                                                                   *)
(***************************************************************************)
MaxTextLen == 6
MaxUnits == 2
MaxRunUnits == 1
MaxTargets == 2
MaxEscapeLen == 3

(***************************************************************************)
(* Generic helpers on sequences                                             *)
(***************************************************************************)
Range(s) == {s[i] : i \in 1..Len(s)}

SeqsUpTo(S, n) == UNION {[1..k -> S] : k \in 0..n}

\* s[from..] starts with the pattern p
StartsWith(s, from, p) ==
    /\ from + Len(p) - 1 <= Len(s)
    /\ \A k \in 1..Len(p) : s[from + k - 1] = p[k]

\* Python: p in s
Contains(s, p) == \E i \in 1..(Len(s) + 1) : StartsWith(s, i, p)

RECURSIVE ReplaceFrom(_, _, _, _)
ReplaceFrom(s, i, old, new) ==
    IF i > Len(s) THEN <<>>
    ELSE IF StartsWith(s, i, old)
         THEN new \o ReplaceFrom(s, i + Len(old), old, new)
         ELSE <<s[i]>> \o ReplaceFrom(s, i + 1, old, new)

\* Python: s.replace(old, new), old non-empty
StrReplace(s, old, new) == ReplaceFrom(s, 1, old, new)

(***************************************************************************)
(* Text-level functions of the three scripts                                *)
(***************************************************************************)
NUMERIC_VARIABLES == {<<"count">>, <<"found_count">>, <<"total_count">>}

CountToken == <<"{", "count", "}">>

\* The first index j > i with s[j] = "}", or 0
RECURSIVE NextClose(_, _)
NextClose(s, j) ==
    IF j > Len(s) THEN 0
    ELSE IF s[j] = "}" THEN j ELSE NextClose(s, j + 1)

\* re.findall / re.sub scan of r'\{([^}]+)\}': the matches of s from position
\* i on, leftmost first and non-overlapping, each with its start, its end and
\* its group(1)
RECURSIVE Matches(_, _)
Matches(s, i) ==
    IF i > Len(s) THEN <<>>
    ELSE IF s[i] = "{" /\ NextClose(s, i + 1) > i + 1
         THEN LET j == NextClose(s, i + 1)
              IN  <<[start |-> i, end |-> j, name |-> SubSeq(s, i + 1, j - 1)]>>
                      \o Matches(s, j + 1)
         ELSE Matches(s, i + 1)

FindAll(s) == Matches(s, 1)

\* f"%{index}$d" and f"%{index}$s"
FormatSpecifier(index, kind) ==
    IF kind = "d" THEN <<"%1$d", "%2$d", "%3$d", "%4$d">>[index]
                  ELSE <<"%1$s", "%2$s", "%3$s", "%4$s">>[index]

PositionalSpecifiers == {FormatSpecifier(i, k) : i \in 1..4, k \in {"d", "s"}}

\* repl(match) of convert_placeholders
repl(s, m) ==
    LET index == Cardinality({x.name : x \in Range(FindAll(SubSeq(s, 1, m.start - 1)))}) + 1
    IN  IF m.name \in NUMERIC_VARIABLES
        THEN FormatSpecifier(index, "d")
        ELSE FormatSpecifier(index, "s")

RECURSIVE SubFrom(_, _, _)
SubFrom(s, ms, i) ==
    IF ms = <<>> THEN SubSeq(s, i, Len(s))
    ELSE SubSeq(s, i, ms[1].start - 1) \o <<repl(s, ms[1])>>
             \o SubFrom(s, Tail(ms), ms[1].end + 1)

convert_placeholders(s) == SubFrom(s, FindAll(s), 1)

\* One str.replace per line of escape_android_string, in the order of the code
escape_android_string(s) ==
    LET t1 == StrReplace(s,  <<"'">>, <<"\\'">>)
        t2 == StrReplace(t1, <<"&quot;">>, <<"\"">>)
        t3 == StrReplace(t2, <<"\"">>, <<"\\\"">>)
        t4 == StrReplace(t3, <<"&lt;", "b", "&gt;">>, <<"<b>">>)
        t5 == StrReplace(t4, <<"&lt;", "/b", "&gt;">>, <<"</b>">>)
        t6 == StrReplace(t5, <<"&lt;", "/br", "&gt;">>, <<"\\n">>)
        t7 == StrReplace(t6, <<"<br/>">>, <<"\\n">>)
    IN  t7

\* html.unescape: every character reference is replaced by the character it
\* names, in one pass (the result is not unescaped again)
UnescapeToken(c) ==
    CASE c = "&#123;" -> "{"
      [] c = "&#125;" -> "}"
      [] c = "&amp;"  -> "&"
      [] c = "&lt;"   -> "<"
      [] c = "&gt;"   -> ">"
      [] c = "&quot;" -> "\""
      [] c = "&#39;"  -> "'"
      [] OTHER        -> c

html_unescape(s) == [i \in 1..Len(s) |-> UnescapeToken(s[i])]

IsSpace(c) == c \in {" ", "\n", "\t"}

RECURSIVE LStrip(_)
LStrip(s) == IF s # <<>> /\ IsSpace(Head(s)) THEN LStrip(Tail(s)) ELSE s

RECURSIVE RStrip(_)
RStrip(s) ==
    IF s # <<>> /\ IsSpace(s[Len(s)]) THEN RStrip(SubSeq(s, 1, Len(s) - 1)) ELSE s

\* Python: s.strip()
Strip(s) == RStrip(LStrip(s))

clean_string(s) == Strip(html_unescape(s))

\* generate_android_xml, the text of one <item> of a plural group
android_plural_item(value) == escape_android_string(convert_placeholders(value))

\* generate_android_xml, the text of one <string>
android_string(target) == escape_android_string(target)

\* generate_icu_pattern, the value of one plural form
icu_plural_value(value) == html_unescape(StrReplace(value, CountToken, <<"#">>))

\* convert_placeholders_for_plurals, the value of one plural form
ios_plural_value(value) == clean_string(StrReplace(value, CountToken, <<"%lld">>))

(***************************************************************************)
(* SpecText: the text-level functions applied to every text of the bound    *)
(***************************************************************************)
TextAlphabet == {"{", "}", "count", "a", "&#123;", "'"}

Texts == SeqsUpTo(TextAlphabet, MaxTextLen)

IdleDoc ==
    /\ script = "none" /\ doc = <<>> /\ pc = "idle"
    /\ parsed = <<>> /\ output = <<>>

IdleRun ==
    /\ queue = <<>> /\ catalog = <<>> /\ status = "idle"
    /\ error = <<>> /\ files = <<>>
    /\ glossary = <<>> /\ appName = <<>> /\ log = <<>>

InitText ==
    /\ text \in Texts
    /\ op = "none"
    /\ result = <<>>
    /\ IdleDoc
    /\ IdleRun

Apply(name, value) ==
    /\ op = "none"
    /\ op' = name
    /\ result' = value
    /\ UNCHANGED <<text, script, doc, pc, parsed, output, queue, catalog, status, error, files,
                 glossary, appName, log>>

ConvertPlaceholders == Apply("convert_placeholders", convert_placeholders(text))
AndroidPluralItem   == Apply("android_plural_item", android_plural_item(text))
AndroidString       == Apply("android_string", android_string(text))
IcuPluralValue      == Apply("icu_plural_value", icu_plural_value(text))
IosPluralValue      == Apply("ios_plural_value", ios_plural_value(text))
CleanString         == Apply("clean_string", clean_string(text))

NextText ==
    \/ ConvertPlaceholders
    \/ AndroidPluralItem
    \/ AndroidString
    \/ IcuPluralValue
    \/ IosPluralValue
    \/ CleanString

SpecText == InitText /\ [][NextText]_vars

(***************************************************************************)
(* SpecEscape: the text that each script emits for one Simple value         *)
(***************************************************************************)
EscapeAlphabet == {"a", "&", "<", "'", "\"", "&amp;"}

EscapeTexts == SeqsUpTo(EscapeAlphabet, MaxEscapeLen)

\* json.dump of a string, between its quotes: the quote and the backslash are
\* escaped with a backslash
JsonEscapeToken(c) ==
    CASE c = "\""   -> "\\\""
      [] c = "\\"   -> "\\\\"
      [] OTHER      -> c

json_dump_string(s) == [i \in 1..Len(s) |-> JsonEscapeToken(s[i])]

\* generate_android_xml: what stands between <string name=...> and </string>
android_string_element(target) == android_string(target)

\* convert_xliff_to_json: the value of a Simple entry as written to
\* messages.json
desktop_json_value(target) == json_dump_string(html_unescape(target))

\* convert_xliff_to_string_catalog: "value" of the stringUnit of a Simple
\* entry as written to Localizable.xcstrings
ios_json_value(translation) == json_dump_string(clean_string(translation))

InitEscape ==
    /\ text \in EscapeTexts
    /\ op = "none"
    /\ result = <<>>
    /\ IdleDoc
    /\ IdleRun

EmitAndroidString == Apply("android", android_string_element(text))
EmitDesktopValue  == Apply("desktop", desktop_json_value(text))
EmitIosValue      == Apply("ios", ios_json_value(text))

NextEscape ==
    \/ EmitAndroidString
    \/ EmitDesktopValue
    \/ EmitIosValue

SpecEscape == InitEscape /\ [][NextEscape]_vars

(***************************************************************************)
(* XLIFF documents                                                          *)
(*                                                                         *)
(* A document is its trans-unit elements in document order.  A unit has     *)
(* its resname and id attributes (None when the attribute is missing), its  *)
(* target and source elements, a flag telling whether it is a child of the  *)
(* group with restype="x-gettext-plurals", and its context-group.           *)
(***************************************************************************)
None == "<None>"

Element(t) == [present |-> TRUE, text |-> t]
Absent     == [present |-> FALSE, text |-> <<>>]

\* Python truth value of an attribute: neither None nor the empty string
Truthy(k) == k # None /\ k # ""

\* Python: elem is not None and elem.text
HasText(elem) == elem.present /\ elem.text # <<>>

\* context-group: missing, present without an x-plural-form context, or
\* present with the text of that context
NoContextGroup == [group |-> FALSE, context |-> FALSE, text |-> <<>>]
NoPluralForm   == [group |-> TRUE,  context |-> FALSE, text |-> <<>>]
PluralForm(t)  == [group |-> TRUE,  context |-> TRUE,  text |-> t]

\* Python dict: d[k] = v keeps the position of a key already present
DictKeys(d) == [i \in 1..Len(d) |-> d[i].key]

DictHas(d, k) == \E i \in 1..Len(d) : d[i].key = k

DictGet(d, k) == d[CHOOSE i \in 1..Len(d) : d[i].key = k].value

DictSet(d, k, v) ==
    IF DictHas(d, k)
    THEN [i \in 1..Len(d) |-> IF d[i].key = k THEN [key |-> k, value |-> v] ELSE d[i]]
    ELSE Append(d, [key |-> k, value |-> v])

\* A TranslationValue: a str, or a dict from plural form to str
Simple(t) == [isdict |-> FALSE, text |-> t, forms |-> <<>>]
Plural(f) == [isdict |-> TRUE,  text |-> <<>>, forms |-> f]

\* str.lower() of one token
LowerToken(c) ==
    CASE c = "One"   -> "one"
      [] c = "OTHER" -> "other"
      [] OTHER       -> c

Lower(s) == [i \in 1..Len(s) |-> LowerToken(s[i])]

\* The index of the last ":" of s, or 0
RECURSIVE LastColon(_, _)
LastColon(s, i) ==
    IF i = 0 THEN 0 ELSE IF s[i] = ":" THEN i ELSE LastColon(s, i - 1)

\* plural_form.text.split(':')[-1].strip().lower()
plural_category(s) == Lower(Strip(SubSeq(s, LastColon(s, Len(s)) + 1, Len(s))))

(***************************************************************************)
(* parse_xliff of generate_android_strings.py and generate_desktop_strings  *)
(***************************************************************************)
PluralUnits(units) == SelectSeq(units, LAMBDA u : u.plural)

HasPluralGroup(units) == PluralUnits(units) # <<>>

\* Body of "for trans_unit in group.findall('ns:trans-unit')": st is
\* [err, resname, plural_forms] before the unit
android_group_unit(st, u) ==
    LET resname == IF st.resname = None THEN u.resname ELSE st.resname
    IN  IF st.err # "none" THEN st
        ELSE IF ~u.ctx.group
        THEN [st EXCEPT !.err = "AttributeError", !.resname = resname]
        ELSE IF HasText(u.target) /\ u.ctx.context
        THEN [st EXCEPT !.resname = resname,
                        !.plural_forms = DictSet(@, plural_category(u.ctx.text), u.target.text)]
        ELSE [st EXCEPT !.resname = resname]

RECURSIVE android_group_loop(_, _)
android_group_loop(st, us) ==
    IF us = <<>> THEN st
    ELSE android_group_loop(android_group_unit(st, Head(us)), Tail(us))

\* android_plural_pass without the "and plural_forms" test
android_plural_pass_mutant(units) ==
    LET st == android_group_loop([err |-> "none", resname |-> None, plural_forms |-> <<>>],
                                 PluralUnits(units))
    IN  IF ~HasPluralGroup(units) THEN [err |-> "none", translations |-> <<>>]
        ELSE IF st.err # "none" THEN [err |-> st.err, translations |-> <<>>]
        ELSE IF Truthy(st.resname)
        THEN [err |-> "none", translations |-> <<[key |-> st.resname, value |-> Plural(st.plural_forms)]>>]
        ELSE [err |-> "none", translations |-> <<>>]

\* "Handle plural groups"
android_plural_pass(units) ==
    LET st == android_group_loop([err |-> "none", resname |-> None, plural_forms |-> <<>>],
                                 PluralUnits(units))
    IN  IF ~HasPluralGroup(units) THEN [err |-> "none", translations |-> <<>>]
        ELSE IF st.err # "none" THEN [err |-> st.err, translations |-> <<>>]
        ELSE IF Truthy(st.resname) /\ st.plural_forms # <<>>
        THEN [err |-> "none", translations |-> <<[key |-> st.resname, value |-> Plural(st.plural_forms)]>>]
        ELSE [err |-> "none", translations |-> <<>>]

\* "Handle non-plural translations"
RECURSIVE android_simple_pass(_, _)
android_simple_pass(translations, us) ==
    IF us = <<>> THEN translations
    ELSE LET u == Head(us)
             next == IF ~DictHas(translations, u.resname) /\ HasText(u.target)
                     THEN DictSet(translations, u.resname, Simple(u.target.text))
                     ELSE translations
         IN  android_simple_pass(next, Tail(us))

android_parse_xliff(d) ==
    LET p == android_plural_pass(d.units)
    IN  IF p.err # "none" THEN [err |-> p.err, translations |-> <<>>, target_language |-> None]
        ELSE [err |-> "none",
              translations |-> android_simple_pass(p.translations, d.units),
              target_language |-> None]

\* generate_desktop_strings.py carries the same function, line for line
desktop_parse_xliff(d) == android_parse_xliff(d)

(***************************************************************************)
(* parse_xliff of generate_ios_strings.py                                   *)
(***************************************************************************)
NoFileElement == "<no file element>"

\* trans_unit.get('resname') or trans_unit.get('id')
ios_unit_key(u) == IF Truthy(u.resname) THEN u.resname ELSE u.id

\* First loop: every trans-unit of the document, those of plural groups too
RECURSIVE ios_simple_pass(_, _)
ios_simple_pass(translations, us) ==
    IF us = <<>> THEN translations
    ELSE LET u == Head(us)
             resname == ios_unit_key(u)
             next == IF resname = None THEN translations
                     ELSE IF HasText(u.target)
                     THEN DictSet(translations, resname, Simple(u.target.text))
                     ELSE IF HasText(u.source)
                     THEN DictSet(translations, resname, Simple(u.source.text))
                     ELSE translations
         IN  ios_simple_pass(next, Tail(us))

\* Body of "for trans_unit in group.findall('ns:trans-unit')"
ios_group_unit(st, u) ==
    LET resname == IF st.resname = None THEN ios_unit_key(u) ELSE st.resname
    IN  IF u.ctx.group /\ HasText(u.target) /\ u.ctx.context
        THEN [st EXCEPT !.resname = resname,
                        !.plural_forms = DictSet(@, plural_category(u.ctx.text), u.target.text)]
        ELSE [st EXCEPT !.resname = resname]

RECURSIVE ios_group_loop(_, _)
ios_group_loop(st, us) ==
    IF us = <<>> THEN st
    ELSE ios_group_loop(ios_group_unit(st, Head(us)), Tail(us))

\* "Handle plural groups"
ios_plural_pass(translations, units) ==
    LET st == ios_group_loop([err |-> "none", resname |-> None, plural_forms |-> <<>>],
                             PluralUnits(units))
    IN  IF HasPluralGroup(units) /\ Truthy(st.resname) /\ st.plural_forms # <<>>
        THEN DictSet(translations, st.resname, Plural(st.plural_forms))
        ELSE translations

\* ios_parse_xliff without the fallback to the source text
ios_parse_xliff_mutant(d) ==
    LET units == [i \in 1..Len(d.units) |-> [d.units[i] EXCEPT !.source = Absent]]
    IN  IF d.target_language = NoFileElement \/ d.target_language = None
        THEN [err |-> "ValueError", translations |-> <<>>, target_language |-> None]
        ELSE [err |-> "none",
              translations |-> ios_plural_pass(ios_simple_pass(<<>>, units), units),
              target_language |-> d.target_language]

ios_parse_xliff(d) ==
    IF d.target_language = NoFileElement \/ d.target_language = None
    THEN [err |-> "ValueError", translations |-> <<>>, target_language |-> None]
    ELSE [err |-> "none",
          translations |-> ios_plural_pass(ios_simple_pass(<<>>, d.units), d.units),
          target_language |-> d.target_language]

parse_xliff(s, d) ==
    CASE s = "android" -> android_parse_xliff(d)
      [] s = "desktop" -> desktop_parse_xliff(d)
      [] s = "ios"     -> ios_parse_xliff(d)

(***************************************************************************)
(* Encoders                                                                 *)
(***************************************************************************)
\* The order of Python str on the keys of the model
KeyOrder == <<"a", "b", "c">>

KeyRank(k) == CHOOSE r \in 1..Len(KeyOrder) : KeyOrder[r] = k

KeyLess(x, y) == KeyRank(x) < KeyRank(y)

RECURSIVE InsertItem(_, _)
InsertItem(sorted, item) ==
    IF sorted = <<>> THEN <<item>>
    ELSE IF KeyLess(item.key, Head(sorted).key)
         THEN <<item>> \o sorted
         ELSE <<Head(sorted)>> \o InsertItem(Tail(sorted), item)

RECURSIVE SortItems(_)
SortItems(d) ==
    IF d = <<>> THEN <<>> ELSE InsertItem(SortItems(Tail(d)), Head(d))

\* sorted(translations.items()): None and str keys cannot be compared
sorted_items(d) ==
    IF Len(d) >= 2 /\ DictHas(d, None)
    THEN [err |-> "TypeError", items |-> <<>>]
    ELSE [err |-> "none", items |-> IF Len(d) >= 2 THEN SortItems(d) ELSE d]

\* One <string> or <plurals> element of strings.xml
StringEntry(name, translatable, t) ==
    [tag |-> "string", name |-> name, translatable |-> translatable, text |-> t, items |-> <<>>]

PluralsEntry(name, items) ==
    [tag |-> "plurals", name |-> name, translatable |-> TRUE, text |-> <<>>, items |-> items]

\* android_entry with convert_placeholders on the other branch
android_entry_mutant(item) ==
    IF item.value.isdict
    THEN PluralsEntry(item.key,
             [i \in 1..Len(item.value.forms) |->
                 [quantity |-> item.value.forms[i].key,
                  text |-> escape_android_string(item.value.forms[i].value)]])
    ELSE StringEntry(item.key, TRUE, escape_android_string(convert_placeholders(item.value.text)))

android_entry(item) ==
    IF item.value.isdict
    THEN PluralsEntry(item.key,
             [i \in 1..Len(item.value.forms) |->
                 [quantity |-> item.value.forms[i].key,
                  text |-> android_plural_item(item.value.forms[i].value)]])
    ELSE StringEntry(item.key, TRUE, android_string(item.value.text))

\* app_name is Absent (None) or the text of the glossary entry APP_NAME
generate_android_xml(translations, app_name) ==
    LET sorted_translations == sorted_items(translations)
        head == IF app_name.present
                THEN <<StringEntry("app_name", FALSE, app_name.text)>> ELSE <<>>
    IN  IF sorted_translations.err # "none"
        THEN [err |-> sorted_translations.err, entries |-> <<>>]
        ELSE [err |-> "none",
              entries |-> head \o [i \in 1..Len(sorted_translations.items) |->
                                      android_entry(sorted_translations.items[i])]]

ICU_CATEGORIES ==
    {<<"zero">>, <<"one">>, <<"two">>, <<"few">>, <<"many">>, <<"other">>,
     <<"exact">>, <<"fractional">>}

\* generate_icu_pattern without the test of the form against the category list
generate_icu_pattern_mutant(target) ==
    IF target.isdict
    THEN [isdict |-> TRUE, text |-> <<>>,
          forms |-> [i \in 1..Len(target.forms) |->
                        [key |-> target.forms[i].key,
                         value |-> icu_plural_value(target.forms[i].value)]]]
    ELSE [isdict |-> FALSE, text |-> html_unescape(target.text), forms |-> <<>>]

\* The pattern "{count, plural, <form> [<value>] ...}" is kept as its parts
generate_icu_pattern(target) ==
    IF target.isdict
    THEN LET kept == SelectSeq(target.forms, LAMBDA f : f.key \in ICU_CATEGORIES)
         IN  [isdict |-> TRUE, text |-> <<>>,
              forms |-> [i \in 1..Len(kept) |->
                            [key |-> kept[i].key, value |-> icu_plural_value(kept[i].value)]]]
    ELSE [isdict |-> FALSE, text |-> html_unescape(target.text), forms |-> <<>>]

\* convert_xliff_to_json from the parsed map on: the content of messages.json
convert_xliff_to_json(translations) ==
    LET sorted_translations == sorted_items(translations)
    IN  IF sorted_translations.err # "none"
        THEN [err |-> sorted_translations.err, entries |-> <<>>]
        ELSE [err |-> "none",
              entries |-> [i \in 1..Len(sorted_translations.items) |->
                              [key |-> sorted_translations.items[i].key,
                               value |-> generate_icu_pattern(sorted_translations.items[i].value)]]]

convert_placeholders_for_plurals(forms) ==
    [i \in 1..Len(forms) |-> [key |-> forms[i].key, value |-> ios_plural_value(forms[i].value)]]

\* ios_localization with the two plural shapes exchanged
ios_localization_mutant(translation) ==
    IF translation.isdict
    THEN LET converted_translations == convert_placeholders_for_plurals(translation.forms)
             contains_count == \E i \in 1..Len(translation.forms) :
                                   Contains(translation.forms[i].value, CountToken)
         IN  IF ~contains_count
             THEN [kind |-> "variations", value |-> <<>>, argNum |-> 0,
                   formatSpecifier |-> "", plural |-> converted_translations]
             ELSE [kind |-> "substitutions", value |-> <<"%#@arg1@">>, argNum |-> 1,
                   formatSpecifier |-> "lld", plural |-> converted_translations]
    ELSE [kind |-> "stringUnit", value |-> clean_string(translation.text), argNum |-> 0,
          formatSpecifier |-> "", plural |-> <<>>]

\* One entry of "localizations".  kind tells the shape of the JSON object:
\*   "stringUnit"    {"stringUnit": {"state": "translated", "value": value}}
\*   "variations"    {"variations": {"plural": {form: {"stringUnit": ...}}}}
\*   "substitutions" {"stringUnit": {... "value": "%#@arg1@"},
\*                    "substitutions": {"arg1": {"argNum", "formatSpecifier",
\*                                               "variations": {"plural": ...}}}}
ios_localization(translation) ==
    IF translation.isdict
    THEN LET converted_translations == convert_placeholders_for_plurals(translation.forms)
             contains_count == \E i \in 1..Len(translation.forms) :
                                   Contains(translation.forms[i].value, CountToken)
         IN  IF contains_count
             THEN [kind |-> "variations", value |-> <<>>, argNum |-> 0,
                   formatSpecifier |-> "", plural |-> converted_translations]
             ELSE [kind |-> "substitutions", value |-> <<"%#@arg1@">>, argNum |-> 1,
                   formatSpecifier |-> "lld", plural |-> converted_translations]
    ELSE [kind |-> "stringUnit", value |-> clean_string(translation.text), argNum |-> 0,
          formatSpecifier |-> "", plural |-> <<>>]

\* Body of "for resname, translation in sorted_translations"
RECURSIVE catalog_add_items(_, _, _)
catalog_add_items(strings, items, target_language) ==
    IF items = <<>> THEN strings
    ELSE LET resname == Head(items).key
             created == IF DictHas(strings, resname) THEN strings
                        ELSE DictSet(strings, resname, <<>>)
             localizations == DictSet(DictGet(created, resname), target_language,
                                      ios_localization(Head(items).value))
         IN  catalog_add_items(DictSet(created, resname, localizations),
                               Tail(items), target_language)

\* convert_xliff_to_string_catalog, one locale from the parsed map on:
\* string_catalog["strings"] as a dict from resname to its "localizations"
catalog_add_locale(strings, translations, target_language) ==
    LET sorted_translations == sorted_items(translations)
    IN  IF sorted_translations.err # "none"
        THEN [err |-> sorted_translations.err, strings |-> strings]
        ELSE [err |-> "none",
              strings |-> catalog_add_items(strings, sorted_translations.items, target_language)]

(***************************************************************************)
(* SpecDoc: one document parsed and encoded by each of the three scripts    *)
(***************************************************************************)
Scripts == {"android", "desktop", "ios"}

PlainText == <<"x">>
CountText == <<"{", "count", "}", "x">>
SourceText == <<"s">>

TopLevelKeys ==
    {[resname |-> None, id |-> None], [resname |-> None, id |-> "c"],
     [resname |-> "a", id |-> None], [resname |-> "b", id |-> None]}

GroupKeys == {[resname |-> None, id |-> "c"], [resname |-> "a", id |-> None]}

TargetSource ==
    {[target |-> Absent,             source |-> Element(<<>>)],
     [target |-> Element(<<>>),      source |-> Element(SourceText)],
     [target |-> Element(PlainText), source |-> Element(SourceText)],
     [target |-> Element(CountText), source |-> Element(SourceText)]}

Contexts ==
    {NoContextGroup, NoPluralForm,
     PluralForm(<<"Plural form", ":", " ", "One">>),
     PluralForm(<<"Plural form", ":", " ", "other">>),
     PluralForm(<<"xx">>)}

Unit(k, ts, plural, ctx) ==
    [resname |-> k.resname, id |-> k.id, target |-> ts.target, source |-> ts.source,
     plural |-> plural, ctx |-> ctx]

Units ==
    {Unit(k, ts, FALSE, NoContextGroup) : k \in TopLevelKeys, ts \in TargetSource}
        \cup {Unit(k[1], ts, TRUE, k[2]) : k \in GroupKeys \X Contexts, ts \in TargetSource}

Docs == {[target_language |-> "de", units |-> us] : us \in SeqsUpTo(Units, MaxUnits)}

IdleText == text = <<>> /\ op = "idle" /\ result = <<>>

InitDoc ==
    /\ script \in Scripts
    /\ doc \in Docs
    /\ pc = "start"
    /\ parsed = <<>>
    /\ output = <<>>
    /\ IdleText
    /\ IdleRun

ParseXliff ==
    /\ pc = "start"
    /\ parsed' = parse_xliff(script, doc)
    /\ pc' = IF parsed'.err = "none" THEN "parsed" ELSE "failed"
    /\ UNCHANGED <<text, op, result, script, doc, output, queue, catalog, status, error, files,
                 glossary, appName, log>>

Encoded(out) ==
    /\ output' = out
    /\ pc' = IF out.err = "none" THEN "encoded" ELSE "failed"
    /\ UNCHANGED <<text, op, result, script, doc, parsed, queue, catalog, status, error, files,
                 glossary, appName, log>>

GenerateAndroidXml ==
    /\ pc = "parsed" /\ script = "android"
    /\ \E app_name \in {Absent, Element(<<"Session">>)} :
           Encoded(generate_android_xml(parsed.translations, app_name))

ConvertXliffToJson ==
    /\ pc = "parsed" /\ script = "desktop"
    /\ Encoded(convert_xliff_to_json(parsed.translations))

AddToStringCatalog ==
    /\ pc = "parsed" /\ script = "ios"
    /\ Encoded(catalog_add_locale(<<>>, parsed.translations, parsed.target_language))

NextDoc ==
    \/ ParseXliff
    \/ GenerateAndroidXml
    \/ ConvertXliffToJson
    \/ AddToStringCatalog

SpecDoc == InitDoc /\ [][NextDoc]_vars

(***************************************************************************)
(* Spec: a run of one of the three scripts, convert_all_files from the      *)
(* sorted language list on: the constants file first, then one locale per   *)
(* step                                                                     *)
(***************************************************************************)
SourceLocale == "en"

TargetLocales == {"ar-EG", "ar-SA", "de"}

\* The order of Python str on the locales and two-letter codes of the model
LocaleOrder == <<"ar", "ar-EG", "ar-SA", "de", "en">>

LocaleRank(l) == CHOOSE r \in 1..Len(LocaleOrder) : LocaleOrder[r] = l

\* locale.split('-')
LocaleSubtags(l) ==
    CASE l = "ar-EG" -> <<"ar", "EG">>
      [] l = "ar-SA" -> <<"ar", "SA">>
      [] OTHER -> <<l>>

\* language['twoLettersCode'] of the payload
TwoLettersCode(l) == LocaleSubtags(l)[1]

\* language['textDirection'] of the payload
TextDirection(l) == IF LocaleSubtags(l)[1] = "ar" THEN "rtl" ELSE "ltr"

\* target_languages.sort(key=lambda x: x['locale'])
RECURSIVE InsertLocale(_, _)
InsertLocale(sorted, l) ==
    IF sorted = <<>> THEN <<l>>
    ELSE IF LocaleRank(l) < LocaleRank(Head(sorted))
         THEN <<l>> \o sorted
         ELSE <<Head(sorted)>> \o InsertLocale(Tail(sorted), l)

\* The language list left in the order of the payload
SortLocales_mutant(ls) == ls

RECURSIVE SortLocales(_)
SortLocales(ls) ==
    IF ls = <<>> THEN <<>> ELSE InsertLocale(SortLocales(Tail(ls)), Head(ls))

\* targetLanguages of _project_info.json, in the order of the payload
TargetLists ==
    {ls \in SeqsUpTo(TargetLocales, MaxTargets) :
        \A i, j \in 1..Len(ls) : i # j => ls[i] # ls[j]}

\* The documents of the raw translations directory
RunUnits ==
    {Unit(k, [target |-> Element(PlainText), source |-> Element(SourceText)],
          FALSE, NoContextGroup) :
        k \in {[resname |-> "a", id |-> None], [resname |-> "b", id |-> None]}}

\* The string-catalog script reads target-language of the file element; the
\* file of a locale declares that locale or another one, or declares none
RunDocs(locale) ==
    {[target_language |-> tl, units |-> us] :
        tl \in {locale, SourceLocale, None, NoFileElement},
        us \in SeqsUpTo(RunUnits, MaxRunUnits)}

\* The mobile and desktop scripts never read the file element
PlainRunDocs(locale) ==
    {[target_language |-> locale, units |-> us] : us \in SeqsUpTo(RunUnits, MaxRunUnits)}

EmptyDoc == [target_language |-> None, units |-> <<>>]

\* <locale>.xliff of the raw translations directory: missing, not XML, or a
\* document
RunFiles(s, locale) ==
    {[exists |-> FALSE, parseable |-> FALSE, doc |-> EmptyDoc],
     [exists |-> TRUE, parseable |-> FALSE, doc |-> EmptyDoc]}
      \cup {[exists |-> TRUE, parseable |-> TRUE, doc |-> d] :
               d \in IF s = "ios" THEN RunDocs(locale) ELSE PlainRunDocs(locale)}

\* _non_translatable_strings.json: missing, or its entries (note, text)
Glossaries ==
    {[exists |-> FALSE, entries |-> <<>>],
     [exists |-> TRUE,
      entries |-> <<[note |-> "app_name", text |-> <<"Session">>],
                    [note |-> "STF", text |-> <<"Foundation">>]>>],
     [exists |-> TRUE, entries |-> <<[note |-> "STF", text |-> <<"Foundation">>]>>]}

\* str.upper on the notes of the model
UpperNote(n) == IF n = "app_name" THEN "APP_NAME" ELSE n

\* Paths, as the sequence of their parts
XliffFile(locale) == <<locale, ".xliff">>
GlossaryFile == <<"_non_translatable_strings.json">>
ConstantsPath == <<"NON_TRANSLATABLE_STRINGS_OUTPUT_PATH">>
CatalogPath == <<"Localizable.xcstrings">>

\* "strings" of the catalog that an earlier run left in the output directory
PreviousCatalog == <<[key |-> "previous", value |-> <<>>]>>

\* open(path, 'w') and write: the file holds the content written last
write_file_mutant(fs, path, content) ==
    IF DictHas(fs, path) THEN fs ELSE DictSet(fs, path, content)

write_file(fs, path, content) == DictSet(fs, path, content)

RECURSIVE write_files(_, _)
write_files(fs, writes) ==
    IF writes = <<>> THEN fs
    ELSE write_files(write_file(fs, Head(writes).path, Head(writes).content), Tail(writes))

\* The exception that ends the run: the type that reaches __main__, the file
\* its message names (<<>> when it names none), the file whose processing
\* failed, and the exception raised first
NoError == [type |-> "none", names |-> <<>>, file |-> <<>>, cause |-> "none"]

\* convert_non_translatable_strings_to_kotlin: the constants file and the
\* returned app_name
convert_non_translatable_strings_to_kotlin(g) ==
    LET entries == g.entries
        named == {i \in 1..Len(entries) : UpperNote(entries[i].note) = "APP_NAME"}
        last == CHOOSE i \in named : \A j \in named : j <= i
    IN  IF ~g.exists
        THEN [err |-> "FileNotFoundError", content |-> <<>>, app_name |-> Absent]
        ELSE IF entries = <<>>
        THEN \* max() of an empty sequence
             [err |-> "ValueError", content |-> <<>>, app_name |-> Absent]
        ELSE [err |-> "none",
              content |-> [entries |-> [i \in 1..Len(entries) |->
                                           [key |-> UpperNote(entries[i].note),
                                            text |-> entries[i].text]],
                           rtlLocales |-> <<>>],
              app_name |-> IF named = {} THEN Absent ELSE Element(entries[last].text)]

\* rtl_languages of convert_all_files and rtl_locales of
\* convert_non_translatable_strings_to_type_script
rtl_locales(target_languages) ==
    LET rtl_languages == SelectSeq(target_languages, LAMBDA l : TextDirection(l) = "rtl")
    IN  SortLocales([i \in 1..Len(rtl_languages) |-> TwoLettersCode(rtl_languages[i])])

\* convert_non_translatable_strings_to_type_script: LOCALE_DEFAULTS and the
\* codes written between the brackets of rtlLocales
convert_non_translatable_strings_to_type_script(g, target_languages) ==
    IF ~g.exists
    THEN [err |-> "FileNotFoundError", content |-> <<>>]
    ELSE [err |-> "none",
          content |-> [entries |-> [i \in 1..Len(g.entries) |->
                                       [key |-> g.entries[i].note, text |-> g.entries[i].text]],
                       rtlLocales |-> rtl_locales(target_languages)]]

\* convert_non_translatable_strings_to_swift
convert_non_translatable_strings_to_swift(g) ==
    IF ~g.exists
    THEN [err |-> "FileNotFoundError", content |-> <<>>]
    ELSE [err |-> "none",
          content |-> [entries |-> [i \in 1..Len(g.entries) |->
                                       [key |-> g.entries[i].note, text |-> g.entries[i].text]],
                       rtlLocales |-> <<>>]]

\* The app_name handed to generate_android_xml, for every locale
android_app_name_mutant(is_source_language, name) == name

\* "app_name if is_source_language else None"
android_app_name(is_source_language, name) ==
    IF is_source_language THEN name ELSE Absent

\* The output files of a locale without the directory of the region
android_output_files_mutant(locale, source_locale) ==
    LET language_code == LocaleSubtags(locale)[1]
    IN  <<IF locale = source_locale
          THEN <<"values", "/strings.xml">>
          ELSE <<"values-", language_code, "/strings.xml">> >>

\* language_output_file, then region_output_file when the locale has a
\* second subtag
android_output_files(locale, source_locale) ==
    LET subtags == LocaleSubtags(locale)
        language_code == subtags[1]
        region_code == IF Len(subtags) > 1 THEN subtags[2] ELSE None
        language_output_file ==
            IF locale = source_locale
            THEN <<"values", "/strings.xml">>
            ELSE <<"values-", language_code, "/strings.xml">>
    IN  IF region_code # None /\ region_code # ""
        THEN <<language_output_file,
               <<"values-", language_code, "-r", region_code, "/strings.xml">> >>
        ELSE <<language_output_file>>

\* convert_xliff_to_android_xml: the error it raises, or the writes it makes
convert_xliff_to_android_xml(f, source_locale, locale, name) ==
    LET translations == android_parse_xliff(f.doc)
        output_data == generate_android_xml(translations.translations,
                           android_app_name(locale = source_locale, name))
        paths == android_output_files(locale, source_locale)
        none == [names |-> FALSE, writes |-> <<>>, resnames |-> <<>>]
    IN  IF ~f.exists THEN [err |-> "FileNotFoundError", names |-> TRUE] @@ none
        ELSE IF ~f.parseable THEN [err |-> "ParseError"] @@ none
        ELSE IF translations.err # "none" THEN [err |-> translations.err] @@ none
        ELSE IF output_data.err # "none" THEN [err |-> output_data.err] @@ none
        ELSE [err |-> "none", names |-> FALSE,
              writes |-> [i \in 1..Len(paths) |->
                             [path |-> paths[i], content |-> output_data.entries]],
              resnames |-> DictKeys(translations.translations)]

LOCALE_PATH_MAPPING ==
    <<[key |-> "es-419", value |-> "es-419"], [key |-> "hy-AM", value |-> "hy-AM"],
      [key |-> "kmr-TR", value |-> "kmr"],    [key |-> "pt-BR", value |-> "pt-BR"],
      [key |-> "pt-PT", value |-> "pt-PT"],   [key |-> "zh-CN", value |-> "zh-CN"],
      [key |-> "zh-TW", value |-> "zh-TW"],   [key |-> "en-US", value |-> "en"]>>

\* dict.get(key, default)
DictGetOr(d, k, default) == IF DictHas(d, k) THEN DictGet(d, k) ELSE default

\* LOCALE_PATH_MAPPING.get(locale, LOCALE_PATH_MAPPING.get(code, code))
output_locale(locale, locale_two_letter_code) ==
    DictGetOr(LOCALE_PATH_MAPPING, locale,
              DictGetOr(LOCALE_PATH_MAPPING, locale_two_letter_code, locale_two_letter_code))

\* convert_xliff_to_json with its file: the error it raises, or its write
convert_locale_to_json(f, locale, locale_two_letter_code) ==
    LET translations == desktop_parse_xliff(f.doc)
        converted_translations == convert_xliff_to_json(translations.translations)
        none == [names |-> FALSE, writes |-> <<>>, resnames |-> <<>>]
    IN  IF ~f.exists THEN [err |-> "FileNotFoundError", names |-> TRUE] @@ none
        ELSE IF ~f.parseable THEN [err |-> "ParseError"] @@ none
        ELSE IF translations.err # "none" THEN [err |-> translations.err] @@ none
        ELSE IF converted_translations.err # "none"
        THEN [err |-> converted_translations.err] @@ none
        ELSE [err |-> "none", names |-> FALSE,
              writes |-> <<[path |-> <<output_locale(locale, locale_two_letter_code),
                                       "/messages.json">>,
                            content |-> converted_translations.entries]>>,
              resnames |-> DictKeys(translations.translations)]

Init ==
    /\ script \in Scripts
    /\ queue \in TargetLists
    /\ glossary \in Glossaries
    /\ appName = Absent
    /\ log = <<>>
    /\ catalog = <<>>
    /\ status = "start"
    /\ error = NoError
    /\ files \in {<<>>} \cup (IF script = "ios"
                               THEN {<<[key |-> CatalogPath, value |-> PreviousCatalog]>>}
                               ELSE {})
    /\ doc = <<>> /\ pc = "idle" /\ parsed = <<>> /\ output = <<>>
    /\ IdleText

\* The failure written on a file that the run had left alone
Fail_mutant(type, names, file, cause) ==
    /\ status' = "failed"
    /\ error' = [type |-> type, names |-> names, file |-> file, cause |-> cause]
    /\ files' = DictSet(files, CatalogPath, catalog)
    /\ UNCHANGED <<catalog, queue, appName, log>>

\* An exception leaves convert_all_files; __main__ prints its message and
\* exits with status 1
Fail(type, names, file, cause) ==
    /\ status' = "failed"
    /\ error' = [type |-> type, names |-> names, file |-> file, cause |-> cause]
    /\ UNCHANGED <<catalog, queue, files, appName, log>>

\* target_languages.sort(key=lambda x: x['locale']), in place; the mobile and
\* the string-catalog script put the source language before the sorted list
ProcessProjectInfo ==
    /\ status = "start"
    /\ queue' = IF script = "desktop" THEN SortLocales(queue)
                ELSE <<SourceLocale>> \o SortLocales(queue)
    /\ status' = "constants"
    /\ UNCHANGED <<text, op, result, script, doc, pc, parsed, output, catalog, error, files,
                   glossary, appName, log>>

\* The constants file is written, the run goes on to the locales
ConstantsWritten(content, name) ==
    /\ files' = write_file(files, ConstantsPath, content)
    /\ appName' = name
    /\ status' = "running"
    /\ UNCHANGED <<catalog, queue, error, log>>

ConstantsKotlin ==
    /\ status = "constants" /\ script = "android"
    /\ LET r == convert_non_translatable_strings_to_kotlin(glossary)
       IN  IF r.err # "none"
           THEN Fail(r.err, IF r.err = "FileNotFoundError" THEN GlossaryFile ELSE <<>>,
                     GlossaryFile, r.err)
           ELSE ConstantsWritten(r.content, r.app_name)
    /\ UNCHANGED <<text, op, result, script, doc, pc, parsed, output, glossary>>

ConstantsTypeScript ==
    /\ status = "constants" /\ script = "desktop"
    /\ LET r == convert_non_translatable_strings_to_type_script(glossary, queue)
       IN  IF r.err # "none"
           THEN Fail(r.err, GlossaryFile, GlossaryFile, r.err)
           ELSE ConstantsWritten(r.content, Absent)
    /\ UNCHANGED <<text, op, result, script, doc, pc, parsed, output, glossary>>

ConstantsSwift ==
    /\ status = "constants" /\ script = "ios"
    /\ LET r == convert_non_translatable_strings_to_swift(glossary)
       IN  IF r.err # "none"
           THEN Fail(r.err, GlossaryFile, GlossaryFile, r.err)
           ELSE ConstantsWritten(r.content, Absent)
    /\ UNCHANGED <<text, op, result, script, doc, pc, parsed, output, glossary>>

\* One locale converted: its files are written and it leaves the queue
Converted(locale, r) ==
    /\ files' = write_files(files, r.writes)
    /\ log' = Append(log, [locale |-> locale, resnames |-> r.resnames, writes |-> r.writes])
    /\ queue' = Tail(queue)
    /\ UNCHANGED <<status, error, appName>>

\* One iteration of "for language in [source_language] + target_languages"
ConvertLocaleAndroid ==
    /\ status = "running" /\ script = "android" /\ queue # <<>>
    /\ \E f \in RunFiles(script, Head(queue)) :
          LET locale == Head(queue)
              r == convert_xliff_to_android_xml(f, SourceLocale, locale, appName)
          IN  IF r.err # "none"
              THEN Fail(r.err, IF r.names THEN XliffFile(locale) ELSE <<>>,
                        XliffFile(locale), r.err)
              ELSE Converted(locale, r) /\ UNCHANGED catalog
    /\ UNCHANGED <<text, op, result, script, doc, pc, parsed, output, glossary>>

\* One iteration of "for language in target_languages"
ConvertLocaleDesktop ==
    /\ status = "running" /\ script = "desktop" /\ queue # <<>>
    /\ \E f \in RunFiles(script, Head(queue)) :
          LET locale == Head(queue)
              r == convert_locale_to_json(f, locale, TwoLettersCode(locale))
          IN  IF r.err # "none"
              THEN Fail(r.err, IF r.names THEN XliffFile(locale) ELSE <<>>,
                        XliffFile(locale), r.err)
              ELSE Converted(locale, r) /\ UNCHANGED catalog
    /\ UNCHANGED <<text, op, result, script, doc, pc, parsed, output, glossary>>

\* convert_xliff_to_string_catalog, one iteration of
\* "for language in [source_language] + target_languages"
ConvertLocaleIos ==
    /\ status = "running" /\ script = "ios" /\ queue # <<>>
    /\ \E f \in RunFiles(script, Head(queue)) :
          LET locale == Head(queue)
              p == ios_parse_xliff(f.doc)
              added == catalog_add_locale(catalog, p.translations, p.target_language)
          IN  IF ~f.exists
              THEN Fail("FileNotFoundError", XliffFile(locale), XliffFile(locale),
                        "FileNotFoundError")
              ELSE IF ~f.parseable
              THEN \* the handler formats its message with the undefined name
                   \* filename
                   Fail("NameError", <<>>, XliffFile(locale), "ParseError")
              ELSE IF p.err # "none"
              THEN Fail("NameError", <<>>, XliffFile(locale), p.err)
              ELSE IF added.err # "none"
              THEN Fail(added.err, <<>>, XliffFile(locale), added.err)
              ELSE /\ catalog' = added.strings
                   /\ Converted(locale, [writes |-> <<>>,
                                         resnames |-> DictKeys(p.translations)])
    /\ UNCHANGED <<text, op, result, script, doc, pc, parsed, output, glossary>>

\* convert_xliff_to_string_catalog after the loop: json.dump(string_catalog)
WriteStringCatalog ==
    /\ status = "running" /\ script = "ios" /\ queue = <<>>
    /\ files' = write_file(files, CatalogPath, catalog)
    /\ status' = "done"
    /\ UNCHANGED <<text, op, result, script, doc, pc, parsed, output, queue, catalog, error,
                   glossary, appName, log>>

\* The loop of the mobile or desktop script is over: the run ends with status 0
FinishRun ==
    /\ status = "running" /\ script \in {"android", "desktop"} /\ queue = <<>>
    /\ status' = "done"
    /\ UNCHANGED <<text, op, result, script, doc, pc, parsed, output, queue, catalog, error,
                   files, glossary, appName, log>>

Next ==
    \/ ProcessProjectInfo
    \/ ConstantsKotlin
    \/ ConstantsTypeScript
    \/ ConstantsSwift
    \/ ConvertLocaleAndroid
    \/ ConvertLocaleDesktop
    \/ ConvertLocaleIos
    \/ WriteStringCatalog
    \/ FinishRun

Spec == Init /\ [][Next]_vars

(***************************************************************************)
(* Properties of the text-level functions (SpecText)                        *)
(***************************************************************************)
\* The index the numbering rule gives the k-th match: one more than the
\* number of distinct names before the first occurrence of its name
FirstOccurrence(ms, k) == CHOOSE j \in 1..k :
    /\ ms[j].name = ms[k].name
    /\ \A i \in 1..(j - 1) : ms[i].name # ms[k].name

RankOfName(ms, k) == Cardinality({ms[i].name : i \in 1..(FirstOccurrence(ms, k) - 1)}) + 1

RECURSIVE NumberedFrom(_, _, _, _)
NumberedFrom(s, ms, k, i) ==
    IF k > Len(ms) THEN SubSeq(s, i, Len(s))
    ELSE SubSeq(s, i, ms[k].start - 1)
             \o <<FormatSpecifier(RankOfName(ms, k),
                                  IF ms[k].name \in NUMERIC_VARIABLES THEN "d" ELSE "s")>>
             \o NumberedFrom(s, ms, k + 1, ms[k].end + 1)

\* C1: convert_placeholders gives every occurrence of a placeholder name the
\* 1-based rank of the name's first occurrence among the distinct names of
\* the text, so that a repeated name reuses its position.
C1_RepeatedNameReusesIndex ==
    op = "convert_placeholders" => result = NumberedFrom(text, FindAll(text), 1, 1)

\* C5: no plural value emitted by any of the three encoders contains the
\* token {count}; no later step of the encoder brings it back.
C5_NoCountTokenInPluralValue ==
    op \in {"android_plural_item", "icu_plural_value", "ios_plural_value"}
        => ~Contains(result, CountToken)

(***************************************************************************)
(* Properties of one document (SpecDoc)                                     *)
(***************************************************************************)
ParsedOk == pc \in {"parsed", "encoded", "failed"} /\ parsed.err = "none"

IsEncoded(s) == pc = "encoded" /\ script = s

\* The key a script reads from a unit
ScriptKey(s, u) == IF s = "ios" THEN ios_unit_key(u) ELSE u.resname

RECURSIVE Dedup(_, _)
Dedup(seen, s) ==
    IF s = <<>> THEN <<>>
    ELSE IF Head(s) \in seen THEN Dedup(seen, Tail(s))
         ELSE <<Head(s)>> \o Dedup(seen \cup {Head(s)}, Tail(s))

\* The units of the plural group that have target text and a plural-form
\* annotation
PopulatedUnits(units) ==
    SelectSeq(PluralUnits(units), LAMBDA u : HasText(u.target) /\ u.ctx.group /\ u.ctx.context)

\* The categories of the input group that have target text, each once, in
\* the order of their first occurrence
GroupCategories(units) ==
    LET q == PopulatedUnits(units)
    IN  Dedup({}, [i \in 1..Len(q) |-> plural_category(q[i].ctx.text)])

\* The resname of the group: the key of its first unit that has one
GroupResname(s, units) ==
    LET keyed == SelectSeq(PluralUnits(units), LAMBDA u : ScriptKey(s, u) # None)
    IN  IF keyed = <<>> THEN None ELSE ScriptKey(s, keyed[1])

PluralEntries(d) == SelectSeq(d, LAMBDA e : e.value.isdict)

\* The localization the string-catalog encoder emitted for a resname
Localization(resname) == DictGet(DictGet(output.strings, resname), parsed.target_language)

HasCount(forms) == \E i \in 1..Len(forms) : Contains(forms[i].value, CountToken)

ValuesConverted(forms, plural) ==
    /\ Len(plural) = Len(forms)
    /\ \A i \in 1..Len(forms) :
          /\ plural[i].key = forms[i].key
          /\ plural[i].value = clean_string(StrReplace(forms[i].value, CountToken, <<"%lld">>))

\* C2 as stated: a plural group with a form that contains {count} is emitted
\* as a single substitution argument numbered 1 with formatSpecifier lld, the
\* variations nested under it, {count} replaced by %lld.
C2_CountPluralUnderSubstitution ==
    IsEncoded("ios") =>
        \A i \in 1..Len(parsed.translations) :
            LET e == parsed.translations[i]
            IN  (e.value.isdict /\ HasCount(e.value.forms)) =>
                    /\ Localization(e.key).kind = "substitutions"
                    /\ Localization(e.key).argNum = 1
                    /\ Localization(e.key).formatSpecifier = "lld"
                    /\ ValuesConverted(e.value.forms, Localization(e.key).plural)

\* C2 amended: a plural group with a form that contains {count} is emitted as
\* plural variations directly, without a substitution argument, each value
\* with {count} replaced by %lld; the substitution argument numbered 1 with
\* formatSpecifier lld wraps the variations only when no form contains {count}.
C2_CountPluralAsVariations ==
    IsEncoded("ios") =>
        \A i \in 1..Len(parsed.translations) :
            LET e == parsed.translations[i]
                l == Localization(e.key)
            IN  e.value.isdict =>
                    /\ ValuesConverted(e.value.forms, l.plural)
                    /\ HasCount(e.value.forms) =>
                           l.kind = "variations" /\ l.argNum = 0 /\ l.formatSpecifier = ""
                    /\ ~HasCount(e.value.forms) =>
                           l.kind = "substitutions" /\ l.argNum = 1 /\ l.formatSpecifier = "lld"

C2_Witness ==
    /\ IsEncoded("ios")
    /\ \E i \in 1..Len(parsed.translations) :
          /\ parsed.translations[i].value.isdict
          /\ HasCount(parsed.translations[i].value.forms)
          /\ Localization(parsed.translations[i].key).kind = "variations"
          /\ \E j \in 1..Len(Localization(parsed.translations[i].key).plural) :
                Contains(Localization(parsed.translations[i].key).plural[j].value, <<"%lld">>)

NoSpecifier(t) == \A i \in 1..Len(t) : t[i] \notin PositionalSpecifiers

SpecifierCount(t) == Cardinality({i \in 1..Len(t) : t[i] \in PositionalSpecifiers})

\* The entries of strings.xml that come from the TranslationMap
MapEntries == SelectSeq(output.entries, LAMBDA e : e.translatable)

\* C3 as stated: the mobile encoder numbers the placeholders of Simple values
\* only: no {name} is left in a <string>, no <item> of a plural group holds a
\* positional specifier.
C3_NumberingOnSimpleOnly ==
    IsEncoded("android") =>
        \A i \in 1..Len(MapEntries) :
            LET e == MapEntries[i]
            IN  /\ e.tag = "string" => FindAll(e.text) = <<>>
                /\ e.tag = "plurals" => \A j \in 1..Len(e.items) : NoSpecifier(e.items[j].text)

\* C3 amended: the mobile encoder numbers the placeholders of plural items
\* only: every {name} of a plural form is emitted as a positional specifier,
\* and a Simple value keeps its {name} tokens and gets no positional specifier.
C3_NumberingOnPluralOnly ==
    IsEncoded("android") =>
        \A i \in 1..Len(MapEntries) :
            LET e == MapEntries[i]
                v == DictGet(parsed.translations, e.name)
            IN  /\ e.tag = "string" =>
                       /\ ~v.isdict
                       /\ NoSpecifier(e.text)
                       /\ Len(FindAll(e.text)) = Len(FindAll(v.text))
                /\ e.tag = "plurals" =>
                       /\ v.isdict
                       /\ Len(e.items) = Len(v.forms)
                       /\ \A j \in 1..Len(e.items) :
                             /\ FindAll(e.items[j].text) = <<>>
                             /\ SpecifierCount(e.items[j].text) = Len(FindAll(v.forms[j].value))

C3_Witness ==
    /\ IsEncoded("android")
    /\ \E i, k \in 1..Len(MapEntries) :
          /\ MapEntries[i].tag = "string"
          /\ FindAll(MapEntries[i].text) # <<>>
          /\ MapEntries[k].tag = "plurals"
          /\ \E j \in 1..Len(MapEntries[k].items) : ~NoSpecifier(MapEntries[k].items[j].text)

\* The plural categories an encoder emitted for the group, in emission order
EmittedCategories(e) ==
    CASE script = "android" -> [j \in 1..Len(e.items) |-> e.items[j].quantity]
      [] script = "desktop" -> [j \in 1..Len(e.value.forms) |-> e.value.forms[j].key]
      [] script = "ios"     ->
             [j \in 1..Len(Localization(e.key).plural) |-> Localization(e.key).plural[j].key]

\* The entries an encoder emitted for plural groups
EmittedPlurals ==
    CASE script = "android" -> SelectSeq(output.entries, LAMBDA e : e.tag = "plurals")
      [] script = "desktop" -> SelectSeq(output.entries, LAMBDA e : e.value.isdict)
      [] script = "ios"     -> PluralEntries(parsed.translations)

\* C4 as stated: each of the three encoders emits, for a plural group, exactly
\* the categories that have target text in the input group, in their order.
C4_EmittedCategoriesEqualInput ==
    pc = "encoded" =>
        \A i \in 1..Len(EmittedPlurals) :
            EmittedCategories(EmittedPlurals[i]) = GroupCategories(doc.units)

\* C4 amended: the mobile and string-catalog encoders emit exactly the
\* distinct categories that have target text in the input group, in the order
\* of their first occurrence; the desktop encoder emits those of them that
\* belong to the ICU category list, in the same order.
C4_EmittedCategoriesDesktopFiltered ==
    pc = "encoded" =>
        /\ Len(EmittedPlurals) = Len(PluralEntries(parsed.translations))
        /\ \A i \in 1..Len(EmittedPlurals) :
              EmittedCategories(EmittedPlurals[i]) =
                  IF script = "desktop"
                  THEN SelectSeq(GroupCategories(doc.units), LAMBDA c : c \in ICU_CATEGORIES)
                  ELSE GroupCategories(doc.units)

C4_Witness ==
    /\ IsEncoded("desktop")
    /\ Len(EmittedPlurals) = 1
    /\ Len(GroupCategories(doc.units)) = 2
    /\ Len(EmittedCategories(EmittedPlurals[1])) = 1

C8_KeylessUnitSkipped ==
    ParsedOk => /\ ~DictHas(parsed.translations, None)
                /\ pc # "failed"

\* C9: a unit of a plural group without target text or without a plural-form
\* annotation (also one without a context-group) is skipped without an error.
C9_UnannotatedUnitSkipped ==
    pc \in {"parsed", "encoded", "failed"} => parsed.err = "none"

\* The unit i is the only unit of the document with its key
UniqueKey(i) ==
    \A j \in 1..Len(doc.units) :
        j # i => ScriptKey(script, doc.units[j]) # ScriptKey(script, doc.units[i])

\* C10: for a non-plural unit whose target is absent or empty, the
\* string-catalog parser maps the key to the source text when the source is
\* not empty, the mobile and desktop parsers add no entry for the key, and no
\* parser maps a key to an empty string.
C10_EmptyTargetFallback ==
    ParsedOk =>
        /\ \A i \in 1..Len(doc.units) :
              LET u == doc.units[i]
                  k == ScriptKey(script, u)
              IN  (~u.plural /\ ~HasText(u.target) /\ UniqueKey(i)) =>
                      IF script = "ios" /\ k # None /\ HasText(u.source)
                      THEN /\ DictHas(parsed.translations, k)
                           /\ DictGet(parsed.translations, k) = Simple(u.source.text)
                      ELSE ~DictHas(parsed.translations, k)
        /\ \A i \in 1..Len(parsed.translations) :
              LET v == parsed.translations[i].value
              IN  IF v.isdict THEN \A j \in 1..Len(v.forms) : v.forms[j].value # <<>>
                  ELSE v.text # <<>>

C10_Witness ==
    /\ ParsedOk /\ script = "ios"
    /\ \E i \in 1..Len(doc.units) :
          /\ ~doc.units[i].plural
          /\ ~HasText(doc.units[i].target)
          /\ UniqueKey(i)
          /\ DictHas(parsed.translations, ios_unit_key(doc.units[i]))
          /\ DictGet(parsed.translations, ios_unit_key(doc.units[i])) = Simple(SourceText)

(***************************************************************************)
(* Properties of a run (Spec)                                               *)
(***************************************************************************)
IsAscending(keys) == \A i \in 1..(Len(keys) - 1) : KeyLess(keys[i], keys[i + 1])

\* C6: the entries of an encoder's output are in ascending order of resname;
\* for the string catalog, the top-level keys of "strings" after the source
\* locale and all target locales have been merged.
C6_CatalogKeysAscending ==
    status = "done" /\ script = "ios" => IsAscending(DictKeys(DictGet(files, CatalogPath)))

\* The locales converted so far, in the order of their conversion
ConvertedLocales == [i \in 1..Len(log) |-> log[i].locale]

\* C11: when the document of a locale has no file element or no
\* target-language attribute in a string-catalog run, the run fails with the
\* malformed-document error (ValueError) and the error that reaches the caller
\* of convert_xliff_to_string_catalog names the path of the document.
C11_MalformedDocumentNamesPath ==
    script = "ios" /\ error.cause = "ValueError"
        => error.type = "ValueError" /\ error.names = error.file

\* C12: in every script, a run in which the document of a locale is absent or
\* cannot be parsed ends failed (exit status 1) with a message that names the
\* offending file, and the failing locale and those after it stay unconverted.
C12_LocaleFailureNamesFile ==
    error.cause # "none" /\ error.file # GlossaryFile
        => /\ status = "failed"
           /\ error.names = error.file
           /\ queue # <<>> /\ error.file = XliffFile(Head(queue))
           /\ \A i \in 1..Len(queue) : \A j \in 1..Len(log) : log[j].locale # queue[i]

\* The app_name elements of the content of a strings.xml
AppNameEntries(content) == {i \in 1..Len(content) : content[i].name = "app_name"}

\* The text of the glossary entry APP_NAME matches t
IsGlossaryAppName(t) ==
    \E i \in 1..Len(glossary.entries) :
        UpperNote(glossary.entries[i].note) = "APP_NAME" /\ glossary.entries[i].text = t

\* C13: in a mobile run, a strings.xml holds the app_name element only if the
\* source locale wrote it; every app_name element is translatable="false" and
\* its text is the text of the glossary entry APP_NAME; no output of a target
\* locale holds it.
C13_AppNameOnlyInSourceOutput ==
    script = "android" =>
        \A e \in 1..Len(log) : \A w \in 1..Len(log[e].writes) :
            LET content == log[e].writes[w].content
            IN  \A i \in AppNameEntries(content) :
                    /\ log[e].locale = SourceLocale
                    /\ content[i].tag = "string"
                    /\ content[i].translatable = FALSE
                    /\ IsGlossaryAppName(content[i].text)

C13_Witness ==
    /\ script = "android" /\ status = "done" /\ Len(log) >= 2
    /\ AppNameEntries(log[1].writes[1].content) # {}
    /\ DictGet(files, <<"values", "/strings.xml">>)[1].text = <<"Session">>

\* The two-letter codes of the right-to-left target locales
RtlCodes ==
    {TwoLettersCode(l) : l \in {t \in {queue[i] : i \in 1..Len(queue)}
                                        \cup {log[i].locale : i \in 1..Len(log)} :
                                    TextDirection(t) = "rtl"}}

\* C14: the list of right-to-left codes in the desktop constants file is in
\* ascending order without a repeated code, and holds exactly the two-letter
\* codes of the right-to-left target locales.
C14_RtlListSortedDeduplicated ==
    script = "desktop" /\ DictHas(files, ConstantsPath) =>
        LET rtl == DictGet(files, ConstantsPath).rtlLocales
        IN  /\ \A i, j \in 1..Len(rtl) : i < j => LocaleRank(rtl[i]) < LocaleRank(rtl[j])
            /\ {rtl[i] : i \in 1..Len(rtl)} = RtlCodes

\* The directories of strings.xml that the mobile layout gives to a locale
ValuesDir == <<"values", "/strings.xml">>
LanguageDir(l) == <<"values-", LocaleSubtags(l)[1], "/strings.xml">>
RegionDir(l) == <<"values-", LocaleSubtags(l)[1], "-r", LocaleSubtags(l)[2], "/strings.xml">>
HasRegion(l) == Len(LocaleSubtags(l)) >= 2

LayoutDirs(l) ==
    {IF l = SourceLocale THEN ValuesDir ELSE LanguageDir(l)}
        \cup (IF HasRegion(l) THEN {RegionDir(l)} ELSE {})

\* C15: for each locale the mobile script writes strings.xml to "values" for
\* the source locale and to "values-<language>" for another one, writes the
\* same content to "values-<language>-r<region>" when the locale has a region
\* subtag, and writes to no other directory.
C15_MobileDirectoryLayout ==
    script = "android" =>
        /\ \A e \in 1..Len(log) :
              LET writes == log[e].writes
              IN  /\ {writes[w].path : w \in 1..Len(writes)} = LayoutDirs(log[e].locale)
                  /\ \A v, w \in 1..Len(writes) : writes[v].content = writes[w].content
                  /\ \A w \in 1..Len(writes) : DictHas(files, writes[w].path)
        /\ \A p \in 1..Len(files) :
              files[p].key = ConstantsPath
                  \/ \E e \in 1..Len(log) : files[p].key \in LayoutDirs(log[e].locale)

C15_Witness ==
    /\ script = "android" /\ status = "done"
    /\ \E e \in 1..Len(log) : log[e].locale = "ar-EG" /\ Len(log[e].writes) = 2
    /\ \E e \in 1..Len(log) : log[e].locale = "de" /\ Len(log[e].writes) = 1
    /\ DictHas(files, ValuesDir) /\ DictHas(files, RegionDir("ar-EG"))

\* C16: in every run the target locales are converted in ascending order of
\* their tag, in whatever order the payload lists them; in the mobile and the
\* string-catalog run the source locale is converted before every target.
C16_ConversionOrder ==
    /\ \A i, j \in 1..Len(log) :
          i < j /\ log[i].locale # SourceLocale /\ log[j].locale # SourceLocale
              => LocaleRank(log[i].locale) < LocaleRank(log[j].locale)
    /\ script \in {"android", "ios"} =>
          \A i \in 1..Len(log) : (log[i].locale = SourceLocale) <=> (i = 1)

C16_Witness ==
    /\ status = "done" /\ script \in {"android", "ios"}
    /\ ConvertedLocales = <<"en", "ar-SA", "de">>

\* The number of converted locales whose map holds resname r
LocalesWith(r) ==
    Cardinality({e \in 1..Len(log) : \E k \in 1..Len(log[e].resnames) : log[e].resnames[k] = r})

\* C18: in a string-catalog run every resname of a converted locale is one
\* top-level key of "strings", and its "localizations" hold one entry for every
\* converted locale whose map holds the resname: a later locale never removes
\* or replaces the entry of an earlier one.
C18_OneLocalizationPerLocale ==
    script = "ios" =>
        \A e \in 1..Len(log) : \A k \in 1..Len(log[e].resnames) :
            LET r == log[e].resnames[k]
            IN  /\ Cardinality({i \in 1..Len(catalog) : catalog[i].key = r}) = 1
                /\ Len(DictGet(catalog, r)) = LocalesWith(r)

\* C19: in a string-catalog run Localizable.xcstrings is written only when
\* every locale has been converted; until then, and in a failed run wherever
\* the failing locale stands, the file is as it was before the run, while the
\* constants file is already written when a locale fails.
C19_CatalogWrittenLast ==
    script = "ios" =>
        /\ status # "done" =>
              \/ ~DictHas(files, CatalogPath)
              \/ DictGet(files, CatalogPath) = PreviousCatalog
        /\ status = "done" =>
              /\ queue = <<>> /\ log # <<>> /\ error = NoError
              /\ DictGet(files, CatalogPath) = catalog
        /\ status = "failed" /\ error.file # GlossaryFile => DictHas(files, ConstantsPath)

C19_Witness ==
    /\ script = "ios" /\ status = "failed" /\ Len(log) = 2 /\ catalog # <<>>
    /\ DictHas(files, ConstantsPath)
    /\ DictHas(files, CatalogPath) /\ DictGet(files, CatalogPath) = PreviousCatalog

\* The converted target locales that share the language code of locale l
SameLanguage(l) ==
    {e \in 1..Len(log) : log[e].locale # SourceLocale
                             /\ LocaleSubtags(log[e].locale)[1] = LocaleSubtags(l)[1]}

\* C20: in a mobile run the target locales that share a language code all
\* write "values-<language>/strings.xml" and each write replaces the content,
\* so the file holds the content of the greatest such locale converted; each
\* region directory holds the content of its own locale; "values" is written by
\* the source locale only.
C20_SharedLanguageDirectory ==
    script = "android" =>
        \A e \in 1..Len(log) :
            LET l == log[e].locale
                own == log[e].writes[1].content
                greatest == CHOOSE g \in SameLanguage(l) :
                                \A h \in SameLanguage(l) :
                                    LocaleRank(log[h].locale) <= LocaleRank(log[g].locale)
            IN  /\ l = SourceLocale => DictGet(files, ValuesDir) = own
                /\ l # SourceLocale =>
                      /\ DictGet(files, LanguageDir(l)) = log[greatest].writes[1].content
                      /\ \A w \in 1..Len(log[e].writes) : log[e].writes[w].path # ValuesDir
                /\ HasRegion(l) => DictGet(files, RegionDir(l)) = own

C20_Witness ==
    /\ script = "android" /\ status = "done"
    /\ ConvertedLocales = <<"en", "ar-EG", "ar-SA">>
    /\ log[2].writes[1].content # log[3].writes[1].content
    /\ DictGet(files, LanguageDir("ar-EG")) = DictGet(files, RegionDir("ar-SA"))
    /\ DictGet(files, LanguageDir("ar-EG")) # DictGet(files, RegionDir("ar-EG"))

(***************************************************************************)
(* Properties of the emitted text (SpecEscape)                              *)
(***************************************************************************)
\* An XML parser reading the content of an element: a bare "&" or "<" is not
\* well-formed, a character reference stands for its character
XmlParseText(s) ==
    IF \E i \in 1..Len(s) : s[i] \in {"&", "<"}
    THEN [err |-> "ParseError", text |-> <<>>]
    ELSE [err |-> "none", text |-> [i \in 1..Len(s) |-> UnescapeToken(s[i])]]

\* A JSON parser reading the content of a string
JsonParseToken(c) ==
    CASE c = "\\\"" -> "\""
      [] c = "\\\\" -> "\\"
      [] OTHER      -> c

JsonParseString(s) == [err |-> "none", text |-> [i \in 1..Len(s) |-> JsonParseToken(s[i])]]

\* The escaping of the mobile target undone: the backslash before a quote or
\* an apostrophe is dropped
UndoAndroidToken(c) ==
    CASE c = "\\'"  -> "'"
      [] c = "\\\"" -> "\""
      [] OTHER      -> c

\* The unescaping of the desktop and string-catalog targets undone: the
\* characters of markup are written as their entities again
UndoUnescapeToken(c) ==
    CASE c = "&" -> "&amp;"
      [] c = "<" -> "&lt;"
      [] c = ">" -> "&gt;"
      [] OTHER   -> c

\* The text recovered from what a script emitted
Recovered ==
    LET parsed_back == IF op = "android" THEN XmlParseText(result) ELSE JsonParseString(result)
    IN  [err |-> parsed_back.err,
         text |-> [i \in 1..Len(parsed_back.text) |->
                      IF op = "android" THEN UndoAndroidToken(parsed_back.text[i])
                      ELSE UndoUnescapeToken(parsed_back.text[i])]]

\* C17: for every Simple value and each of the three targets, parsing the
\* emitted text again (XML for the mobile target, JSON for the other two) and
\* undoing the escaping of the target gives back the original text, also for
\* a value with "&", "<", a quote or an apostrophe.
C17_RoundTrip ==
    op # "none" => Recovered = [err |-> "none", text |-> text]

====
